---- MODULE Spec2Model ----
(***************************************************************************)
(* ALTMAN Ver 8.10: the record lifecycle of the questionnaire application. *)
(*                                                                         *)
(* Four specifications share the state below.                              *)
(*   Spec         one run of the application: run_app builds the window    *)
(*                (DataManager, model binding), then the user's events     *)
(*                (slider moves, commit, delete, close).                   *)
(*   SpecForm     the form of a window that is up on a fresh database:     *)
(*                slider moves and commits, followed further than Spec     *)
(*                follows them.                                            *)
(*   SpecStorage  the storage layer called directly, as a test of          *)
(*                database_manager.py calls it: initialize_database,       *)
(*                DataManager(), setup_altman_table,                       *)
(*                insert_into_altman_table and close_database, with the    *)
(*                driver's and the file system's failures as inputs.       *)
(*   SpecNav      the question pages of a window that is up: next_page,    *)
(*                prev_page, go_home and see_measure on a stack of any     *)
(*                number of pages.                                         *)
(***************************************************************************)
EXTENDS Integers, Sequences, FiniteSets, TLC

VARIABLES
    pc,         \* position of the process: "start", "running", "closed"
    target,     \* the file at target_db_path
    template,   \* the file at db_path (the bundled database)
    dm,         \* the DataManager object: [made, dbOpen, opens, closes]
    sliders,    \* values of altman_question .. altman_question_5
    summary,    \* value of the altmans_summary widget
    view,       \* rows held by altmans_model (the bound table model)
    stack,      \* altmanQuestionStack: [count, index]
    navFrom,    \* history: the stack's index before the last page action
    events,     \* history: the life-cycle events of the run, in order
    assigned,   \* history: every id handed out by an insert, in order
    budget,     \* calls still allowed, per kind (bounds the run)
    last        \* history: the operation that ran last and what it did

vars == <<pc, target, template, dm, sliders, summary, view, stack, navFrom,
          events, assigned, budget, last>>

----------------------------------------------------------------------------
(* Bounds of the model. *)

\* Spec: commits and slider moves of one run.
MaxInserts == 2
MaxMoves == 1
\* SpecForm: slider moves and commits.
FormMoves == 2
FormCommits == 1
\* SpecStorage: calls of each operation.
StorageInserts == 2
MaxBoots == 2
MaxSetups == 2
\* SpecNav: pages of the question stack.
MaxPages == 7

----------------------------------------------------------------------------
(* The table, its columns and a database file. *)

\* CREATE TABLE altman_refined_table: the nine columns in declaration order.
Columns ==
    << "id", "altman_date", "altman_time", "altman_question",
       "altman_question_2", "altman_question_3", "altman_question_4",
       "altman_question_5", "altmans_summary" >>

\* QSlider.setRange(0, 4)
SliderMin == 0
SliderMax == 4
NumSliders == 5

SeqToSet(s) == { s[i] : i \in 1..Len(s) }

Max(S) == IF S = {} THEN 0 ELSE CHOOSE m \in S : \A x \in S : x <= m

\* A file is absent, or a SQLite database: whether the table exists, the
\* columns of its definition, its rows in rowid order, and the table's entry
\* in sqlite_sequence (the largest id ever handed out for it).
AbsentFile ==
    [exists |-> FALSE, hasTable |-> FALSE, schema |-> <<>>, rows |-> <<>>, seq |-> 0]
EmptyDbFile ==
    [exists |-> TRUE, hasTable |-> FALSE, schema |-> <<>>, rows |-> <<>>, seq |-> 0]

\* The effect of CREATE TABLE altman_refined_table (...) on a database
\* without the table.
CreateTable(db) == [db EXCEPT !.hasTable = TRUE, !.schema = Columns]

Ids(rows) == { rows[i].id : i \in 1..Len(rows) }

\* The row as a SELECT * reads it: the nine values in declaration order.
ReadRow(r) == [i \in 1..Len(Columns) |-> r[Columns[i]]]

----------------------------------------------------------------------------
(* Statement text.  A statement is its sequence of tokens, so that counting *)
(* placeholders and reading the column list work on the text.               *)

RECURSIVE CommaList(_)
CommaList(s) ==
    IF Len(s) = 0 THEN <<>>
    ELSE IF Len(s) = 1 THEN s
    ELSE <<s[1], ",">> \o CommaList(Tail(s))

\* The column list of the INSERT statement.
InsertColumns ==
    << "altman_date", "altman_time", "altman_question", "altman_question_2",
       "altman_question_3", "altman_question_4", "altman_question_5",
       "altmans_summary" >>

StatementText(cols, nPlaceholders) ==
    <<"INSERT", "INTO", "altman_refined_table", "(">> \o CommaList(cols)
        \o <<")", "VALUES", "(">>
        \o CommaList([i \in 1..nPlaceholders |-> "?"]) \o <<")">>

\* sql: the statement insert_into_altman_table builds, eight placeholders.
InsertSql == StatementText(InsertColumns, Len(InsertColumns))

\* str.count: the number of tokens of s equal to tok.
RECURSIVE Count(_, _)
Count(s, tok) ==
    IF Len(s) = 0 THEN 0
    ELSE (IF Head(s) = tok THEN 1 ELSE 0) + Count(Tail(s), tok)

FirstIndex(s, tok) == CHOOSE i \in 1..Len(s) : s[i] = tok /\ \A j \in 1..(i-1) : s[j] # tok

\* The columns an INSERT statement names: the list in its first parentheses.
StatementColumns(sql) ==
    SelectSeq(SubSeq(sql, FirstIndex(sql, "(") + 1, FirstIndex(sql, ")") - 1),
              LAMBDA t : t # ",")

IndexOf(s, x) == CHOOSE i \in 1..Len(s) : s[i] = x

----------------------------------------------------------------------------
(* The SQLite driver behind QSqlQuery.                                     *)

\* id INTEGER PRIMARY KEY AUTOINCREMENT: one more than the largest id the
\* table has ever held (sqlite_sequence), which is never below its largest
\* present id.
NoAutoincrementRowId(db) == Max(Ids(db.rows)) + 1
NextRowId(db) == Max(Ids(db.rows) \cup {db.seq}) + 1

\* QSqlQuery.exec() of a prepared INSERT with bound values succeeds when the
\* connection is open, the table exists with the named columns, the
\* statement has one placeholder per named column and one bound value per
\* placeholder, and the driver reports no error (driverOk).
ExecSucceeds(d, db, sql, binds, driverOk) ==
    /\ d.dbOpen
    /\ db.exists /\ db.hasTable
    /\ SeqToSet(StatementColumns(sql)) \subseteq SeqToSet(db.schema) \ {"id"}
    /\ Count(sql, "?") = Len(StatementColumns(sql))
    /\ Len(binds) = Count(sql, "?")
    /\ driverOk

\* The stored row: each named column takes the bound value at its position,
\* id is assigned by the table.  ord, the ordinal of the insertion, is
\* history and no column.
NewRow(db, sql, binds, ord) ==
    LET cols == StatementColumns(sql) IN
    [c \in SeqToSet(Columns) \cup {"ord"} |->
        IF c = "id" THEN NextRowId(db)
        ELSE IF c = "ord" THEN ord
        ELSE IF c \in SeqToSet(cols) THEN binds[IndexOf(cols, c)]
        ELSE "NULL"]

ExecInsert(db, sql, binds, ord) ==
    [db EXCEPT !.rows = Append(@, NewRow(db, sql, binds, ord)),
               !.seq = NextRowId(db)]

\* DELETE FROM altman_refined_table WHERE id IN ids
ExecDelete(db, ids) ==
    [db EXCEPT !.rows = SelectSeq(@, LAMBDA r : r.id \notin ids)]

----------------------------------------------------------------------------
(* try / except.  Every exception the model raises derives from Exception. *)

IsInstance(exc, cls) == cls = "Exception" \/ exc = cls

Caught(exc, handlers) ==
    exc # "none" /\ \E i \in 1..Len(handlers) : IsInstance(exc, handlers[i])

\* What leaves the operation: the exception when no clause takes it.
Propagated(exc, handlers) ==
    IF exc = "none" \/ Caught(exc, handlers) THEN "none" ELSE exc

\* The first clause that takes the exception.
Handler(exc, handlers) ==
    handlers[CHOOSE i \in 1..Len(handlers) :
                /\ IsInstance(exc, handlers[i])
                /\ \A j \in 1..(i-1) : ~IsInstance(exc, handlers[j])]

----------------------------------------------------------------------------
(* database_manager.py.  Each operation is an operator from the state it    *)
(* reads and the environment's answers to a result: the file afterwards,    *)
(* what was logged, the exception that left the operation ("none" when it   *)
(* returned), whether a statement was executed and whether it took effect.  *)

Result(file, d, logged, propagated, executed, ok) ==
    [target |-> file, dm |-> d, logged |-> logged, propagated |-> propagated,
     executed |-> executed, ok |-> ok]

NoManager == [made |-> FALSE, dbOpen |-> FALSE, opens |-> 0, closes |-> 0]

\* except Exception (initialize_database)
NarrowHandlers == <<"ValueError">>
InitHandlers == <<"Exception">>

\* initialize_database().  copyFault is the exception shutil.copy raises
\* ("none": it copies); openOk is the answer of db.open().
TargetNeverPresent(tgt, tpl) == FALSE
TargetPresent(tgt, tpl) == tgt.exists

initialize_database(tgt, tpl, copyFault, openOk) ==
    LET raised == IF ~TargetPresent(tgt, tpl) /\ tpl.exists THEN copyFault ELSE "none"
        file == IF TargetPresent(tgt, tpl) THEN tgt
                ELSE IF tpl.exists
                     THEN (IF copyFault = "none" THEN tpl ELSE tgt)
                     ELSE (IF openOk THEN EmptyDbFile ELSE tgt)
        openFailed == ~TargetPresent(tgt, tpl) /\ ~tpl.exists /\ ~openOk
        logged == (IF openFailed THEN {"Error: Unable to create database"} ELSE {})
                  \cup (IF Caught(raised, InitHandlers)
                        THEN {"Error: Unable to create database"} ELSE {})
    IN Result(file, NoManager, logged, Propagated(raised, InitHandlers),
              FALSE, file.exists)

\* DataManager.setup_altman_table: CREATE TABLE IF NOT EXISTS, which leaves
\* an existing table alone.  createOk is the driver's answer.
SetupWithoutIfNotExists(d, db, createOk) ==
    LET ok == d.dbOpen /\ db.exists /\ createOk /\ ~db.hasTable
    IN [target |-> IF ok THEN CreateTable(db) ELSE db, dm |-> d,
        logged |-> IF ~ok THEN {"Error creating table: altman_refined_table"} ELSE {},
        propagated |-> "none", executed |-> TRUE, ok |-> ok]
setup_altman_table(d, db, createOk) ==
    LET ok == d.dbOpen /\ db.exists /\ createOk
        file == IF ok /\ ~db.hasTable THEN CreateTable(db) ELSE db
    IN Result(file, d,
              IF ~ok THEN {"Error creating table: altman_refined_table"} ELSE {},
              "none", TRUE, ok)

\* except Exception (DataManager.__init__)
CtorHandlers == <<"Exception">>

\* DataManager().  openOk and createOk are the driver's answers to db.open()
\* and to the CREATE TABLE; a failed open is logged and the constructor goes
\* on to setup_tables.  Opening creates a missing file.
DataManager_init(tgt, openOk, createOk) ==
    LET file == IF openOk /\ ~tgt.exists THEN EmptyDbFile ELSE tgt
        d == [made |-> TRUE, dbOpen |-> openOk,
              opens |-> IF openOk THEN 1 ELSE 0, closes |-> 0]
        setup == setup_altman_table(d, file, createOk)
        logged == (IF ~openOk THEN {"Error: Unable to open database"} ELSE {})
                  \cup setup.logged
    IN Result(setup.target, d, logged,
              Propagated(setup.propagated, CtorHandlers), TRUE, openOk /\ setup.ok)

\* bind_values: the eight arguments in the order of the column list.
SwappedBindValues(a) ==
    << a.altman_time, a.altman_date, a.altman_question, a.altman_question_2,
       a.altman_question_3, a.altman_question_4, a.altman_question_5,
       a.altmans_summary >>
BindValues(a) ==
    << a.altman_date, a.altman_time, a.altman_question, a.altman_question_2,
       a.altman_question_3, a.altman_question_4, a.altman_question_5,
       a.altmans_summary >>

\* if sql.count('?') != len(bind_values): raise ValueError
NoGuard(sql, binds) == TRUE
RangeCheckedGuard(sql, binds) ==
    /\ Count(sql, "?") = Len(binds)
    /\ \A i \in 3..(2 + NumSliders) : binds[i] \in SliderMin..SliderMax
CountsMatch(sql, binds) == Count(sql, "?") = Len(binds)

\* except ValueError / except Exception (insert_into_altman_table)
InsertHandlers == <<"ValueError", "Exception">>

\* The body of insert_into_altman_table for a statement text sql (the method
\* itself always builds InsertSql).  ord is the ordinal of the insertion.
InsertStatement(d, db, sql, a, driverOk, ord) ==
    LET binds == BindValues(a)
        raised == IF ~CountsMatch(sql, binds) THEN "ValueError" ELSE "none"
        executed == raised = "none"
        ok == executed /\ ExecSucceeds(d, db, sql, binds, driverOk)
        logged == (IF executed /\ ~ok
                       THEN {"Error inserting data: altman_refined_table"} ELSE {})
                  \cup (IF Caught(raised, InsertHandlers)
                        THEN {IF Handler(raised, InsertHandlers) = "ValueError"
                                  THEN "ValueError altman_refined_table"
                                  ELSE "Error during data insertion: altman_refined_table"}
                        ELSE {})
    IN Result(IF ok THEN ExecInsert(db, sql, binds, ord) ELSE db, d, logged,
              Propagated(raised, InsertHandlers), executed, ok)

insert_into_altman_table(d, db, a, driverOk, ord) ==
    InsertStatement(d, db, InsertSql, a, driverOk, ord)

\* close_database(self), the module-level function: closes an open
\* connection.
close_database(d, db) ==
    Result(db, IF d.dbOpen THEN [d EXCEPT !.dbOpen = FALSE, !.closes = @ + 1] ELSE d,
           {}, "none", FALSE, d.dbOpen)

----------------------------------------------------------------------------
(* main_window.py: the form and the bound model.                           *)

RECURSIVE SumSeq(_)
SumSeq(s) == IF Len(s) = 0 THEN 0 ELSE Head(s) + SumSeq(Tail(s))

\* update_altmans_summary: the sum of the slider values greater than 0.
AverageSummary(sl) ==
    LET values == SelectSeq(sl, LAMBDA v : v > 0)
    IN IF Len(values) = 0 THEN 0 ELSE SumSeq(values) \div Len(values)
update_altmans_summary(sl) == SumSeq(SelectSeq(sl, LAMBDA v : v > 0))

\* altman_date / altman_time: set to the current date and time when the
\* window is built (app_operations).
CurrentDate == "2024-01-01"
CurrentTime == "10:00"

\* The widget of the window with the given attribute name, read as
\* add_altmans_data reads it.
WidgetValue(name) ==
    CASE name = "altman_date" -> CurrentDate
      [] name = "altman_time" -> CurrentTime
      [] name = "altman_question" -> sliders[1]
      [] name = "altman_question_2" -> sliders[2]
      [] name = "altman_question_3" -> sliders[3]
      [] name = "altman_question_4" -> sliders[4]
      [] name = "altman_question_5" -> sliders[5]
      [] name = "altmans_summary" -> summary

\* The dictionary altman_table_commit hands to add_altmans_data: argument
\* name -> widget name.
CommitFields ==
    [ altman_date |-> "altman_date", altman_time |-> "altman_time",
      altman_question |-> "altman_question",
      altman_question_2 |-> "altman_question_2",
      altman_question_3 |-> "altman_question_3",
      altman_question_4 |-> "altman_question_4",
      altman_question_5 |-> "altman_question_5",
      altmans_summary |-> "altmans_summary" ]

\* add_altmans_data: the arguments of the insert, read from the widgets.
CommitArgs == [k \in DOMAIN CommitFields |-> WidgetValue(CommitFields[k])]

\* create_and_set_model("altman_refined_table", view) and the model's
\* refresh: the rows of the table as a query over the connection reads them.
SelectRows(d, db) == IF d.dbOpen /\ db.exists /\ db.hasTable THEN db.rows ELSE <<>>

\* getattr(self, name) for the model attributes of the window.
ModelNamed(name) == IF name = "altmans_model" THEN view ELSE <<>>

\* delete_selected_rows(self, view name, model name) for the view positions
\* sel: the rows at these positions of the model are deleted by primary
\* key, then the model is refreshed.
SelectedIds(modelName, sel) ==
    { ModelNamed(modelName)[p].id : p \in sel \cap (1..Len(ModelNamed(modelName))) }

delete_selected_rows(d, db, modelName, sel) ==
    IF d.dbOpen /\ db.exists /\ db.hasTable
        THEN ExecDelete(db, SelectedIds(modelName, sel))
        ELSE db

----------------------------------------------------------------------------
(* History.                                                                *)

Last(op, r, pre, a, sql, sel) ==
    [op |-> op, ok |-> r.ok, logged |-> r.logged, propagated |-> r.propagated,
     executed |-> r.executed, pre |-> pre, args |-> a, sql |-> sql, sel |-> sel]

NoArgs == [k \in DOMAIN CommitFields |-> 0]

NoResult == Result(AbsentFile, NoManager, {}, "none", FALSE, FALSE)

NoLast == Last("none", NoResult, AbsentFile, NoArgs, <<>>, {})

LastId(db) == db.rows[Len(db.rows)].id

----------------------------------------------------------------------------
(* Spec: one run of the application.                                       *)

FreshFiles == {AbsentFile, EmptyDbFile, CreateTable(EmptyDbFile)}

InitForm ==
    /\ sliders = [i \in 1..NumSliders |-> SliderMin]
    /\ summary = 0

\* The question stack where the page actions are left out: its first page.
FirstPage ==
    /\ stack = [count |-> MaxPages, index |-> 0]
    /\ navFrom = 0

unchangedNav == UNCHANGED <<stack, navFrom>>

Init ==
    /\ pc = "start"
    /\ target \in FreshFiles
    /\ template = AbsentFile
    /\ dm = NoManager
    /\ InitForm
    /\ FirstPage
    /\ view = <<>>
    /\ events = <<>>
    /\ assigned = <<>>
    /\ budget = [inserts |-> MaxInserts, moves |-> MaxMoves, boots |-> 0, setups |-> 0]
    /\ last = NoLast

\* run_app: QApplication, MainWindow() and show.  MainWindow.__init__ builds
\* the DataManager (open, then setup_tables), binds the model
\* (setup_models), then sets the summary from the sliders
\* (update_altmans_summary) and connects the actions.
run_app ==
    /\ pc = "start"
    /\ \E openOk \in BOOLEAN, createOk \in BOOLEAN :
        LET r == DataManager_init(target, openOk, createOk) IN
        /\ target' = r.target
        /\ dm' = r.dm
        /\ pc' = IF r.propagated = "none" THEN "running" ELSE "crashed"
        /\ view' = IF r.propagated = "none" THEN SelectRows(r.dm, r.target) ELSE <<>>
        /\ events' = events \o <<"open", "setup_altman_table">>
                \o (IF r.propagated = "none" THEN <<"setup_models">> ELSE <<>>)
        /\ summary' = update_altmans_summary(sliders)
        /\ last' = Last("DataManager", r, target, NoArgs, <<>>, {})
    /\ UNCHANGED <<template, sliders, assigned, budget>>
    /\ unchangedNav

\* valueChanged of slider i, moved to v: update_altmans_summary.
valueChanged(i, v) ==
    /\ pc = "running"
    /\ budget.moves > 0
    /\ v # sliders[i]
    /\ sliders' = [sliders EXCEPT ![i] = v]
    /\ summary' = update_altmans_summary(sliders')
    /\ budget' = [budget EXCEPT !.moves = @ - 1]
    /\ last' = Last("valueChanged", NoResult, target, NoArgs, <<>>, {})
    /\ UNCHANGED <<pc, target, template, dm, view, events, assigned>>
    /\ unchangedNav

\* actionCommit.triggered: add_altmans_data reads the widgets, calls
\* db_manager.insert_into_altman_table and refreshes the model.
altman_table_commit ==
    /\ pc = "running"
    /\ budget.inserts > 0
    /\ \E driverOk \in BOOLEAN :
        LET r == insert_into_altman_table(dm, target, CommitArgs, driverOk,
                                          Len(assigned) + 1) IN
        /\ target' = r.target
        /\ assigned' = IF r.ok THEN Append(assigned, LastId(r.target)) ELSE assigned
        /\ pc' = IF r.propagated = "none" THEN pc ELSE "crashed"
        /\ view' = IF r.propagated = "none" THEN SelectRows(dm, r.target) ELSE view
        /\ events' = IF "insert" \in SeqToSet(events) THEN events
                     ELSE Append(events, "insert")
        /\ last' = Last("insert", r, target, CommitArgs, InsertSql, {})
    /\ budget' = [budget EXCEPT !.inserts = @ - 1]
    /\ UNCHANGED <<template, dm, sliders, summary>>
    /\ unchangedNav

\* actionDelete.triggered: delete_selected_rows(self, 'altmans_table',
\* 'altmans_model') with the view's selection, then the model's refresh.
WrongModelDelete(sel) ==
    /\ pc = "running"
    /\ sel # {}
    /\ target' = delete_selected_rows(dm, target, "becks_model", sel)
    /\ view' = SelectRows(dm, target')
    /\ last' = Last("delete", NoResult, target, NoArgs, <<>>, SelectedIds("altmans_model", sel))
    /\ UNCHANGED <<pc, template, dm, sliders, summary, events, assigned, budget>>
    /\ unchangedNav
delete_group(sel) ==
    /\ pc = "running"
    /\ sel # {}
    /\ target' = delete_selected_rows(dm, target, "altmans_model", sel)
    /\ view' = SelectRows(dm, target')
    /\ last' = Last("delete", NoResult, target, NoArgs, <<>>, SelectedIds("altmans_model", sel))
    /\ UNCHANGED <<pc, template, dm, sliders, summary, events, assigned, budget>>
    /\ unchangedNav

\* closeEvent: save_state (the window's geometry, in QSettings).
closeEvent ==
    /\ pc = "running"
    /\ pc' = "closed"
    /\ events' = Append(events, "closeEvent")
    /\ last' = Last("closeEvent", NoResult, target, NoArgs, <<>>, {})
    /\ UNCHANGED <<target, template, dm, sliders, summary, view, assigned, budget>>
    /\ unchangedNav

Next ==
    \/ run_app
    \/ \E i \in 1..NumSliders, v \in SliderMin..SliderMax : valueChanged(i, v)
    \/ altman_table_commit
    \/ \E sel \in SUBSET (1..Len(view)) : delete_group(sel)
    \/ closeEvent

Spec == Init /\ [][Next]_vars

----------------------------------------------------------------------------
(* SpecForm: the form of a window that run_app has built on a fresh        *)
(* database (the state run_app leaves when nothing fails).                 *)

WindowUp == DataManager_init(AbsentFile, TRUE, TRUE)

InitWindowUp ==
    /\ pc = "running"
    /\ target = WindowUp.target
    /\ template = AbsentFile
    /\ dm = WindowUp.dm
    /\ InitForm
    /\ FirstPage
    /\ view = <<>>
    /\ events = <<"open", "setup_altman_table", "setup_models">>
    /\ assigned = <<>>
    /\ budget = [inserts |-> FormCommits, moves |-> FormMoves, boots |-> 0, setups |-> 0]
    /\ last = Last("DataManager", WindowUp, AbsentFile, NoArgs, <<>>, {})

NextForm ==
    \/ \E i \in 1..NumSliders, v \in SliderMin..SliderMax : valueChanged(i, v)
    \/ altman_table_commit

SpecForm == InitWindowUp /\ [][NextForm]_vars

----------------------------------------------------------------------------
(* SpecStorage: the storage layer called directly.                         *)

\* Arguments of insert_into_altman_table: the round trip of the
\* specification, an all-zero form and answers outside the sliders' range.
InsertInputs ==
    { [altman_date |-> "2024-01-01", altman_time |-> "10:00",
       altman_question |-> 1, altman_question_2 |-> 2, altman_question_3 |-> 0,
       altman_question_4 |-> 3, altman_question_5 |-> 4, altmans_summary |-> 10],
      [altman_date |-> "2024-01-02", altman_time |-> "23:59",
       altman_question |-> 0, altman_question_2 |-> 0, altman_question_3 |-> 0,
       altman_question_4 |-> 0, altman_question_5 |-> 0, altmans_summary |-> 0],
      [altman_date |-> "2024-01-03", altman_time |-> "00:00",
       altman_question |-> 9, altman_question_2 |-> 4, altman_question_3 |-> 7,
       altman_question_4 |-> 2, altman_question_5 |-> 1, altmans_summary |-> 23] }

\* Statement texts handed to the insert's body: the one the method builds,
\* and two malformed ones (a placeholder short, a placeholder over).
Statements ==
    { InsertSql,
      StatementText(InsertColumns, Len(InsertColumns) - 1),
      StatementText(InsertColumns, Len(InsertColumns) + 1) }

\* A database that earlier runs have used: one row left, ids up to 2 spent.
UsedDbFile ==
    [exists |-> TRUE, hasTable |-> TRUE, schema |-> Columns, seq |-> 2,
     rows |-> << [id |-> 1, ord |-> 0, altman_date |-> "2023-12-31",
                  altman_time |-> "08:30", altman_question |-> 4,
                  altman_question_2 |-> 3, altman_question_3 |-> 2,
                  altman_question_4 |-> 1, altman_question_5 |-> 0,
                  altmans_summary |-> 10] >>]

\* The bundled database: the table, no rows.
BundledDbFile == CreateTable(EmptyDbFile)

InitStorage ==
    /\ pc = "storage"
    /\ target \in {AbsentFile, EmptyDbFile, UsedDbFile}
    /\ template \in {AbsentFile, BundledDbFile}
    /\ dm = NoManager
    /\ InitForm
    /\ FirstPage
    /\ view = <<>>
    /\ events = <<>>
    /\ assigned = <<>>
    /\ budget = [inserts |-> StorageInserts, moves |-> 0,
                 boots |-> MaxBoots, setups |-> MaxSetups]
    /\ last = NoLast

unchangedWindow == UNCHANGED <<pc, template, sliders, summary, view, events, stack, navFrom>>

\* initialize_database(), before any DataManager is built.
CallInitializeDatabase ==
    /\ pc = "storage"
    /\ ~dm.made
    /\ budget.boots > 0
    /\ \E copyFault \in {"none", "OSError"}, openOk \in BOOLEAN :
        LET r == initialize_database(target, template, copyFault, openOk) IN
        /\ target' = r.target
        /\ last' = Last("initialize_database", r, target, NoArgs, <<>>, {})
    /\ budget' = [budget EXCEPT !.boots = @ - 1]
    /\ UNCHANGED <<dm, assigned>>
    /\ unchangedWindow

\* DataManager()
CallDataManager ==
    /\ pc = "storage"
    /\ ~dm.made
    /\ \E openOk \in BOOLEAN, createOk \in BOOLEAN :
        LET r == DataManager_init(target, openOk, createOk) IN
        /\ target' = r.target
        /\ dm' = r.dm
        /\ last' = Last("DataManager", r, target, NoArgs, <<>>, {})
    /\ UNCHANGED <<assigned, budget>>
    /\ unchangedWindow

\* db_manager.setup_altman_table()
CallSetupAltmanTable ==
    /\ pc = "storage"
    /\ dm.made
    /\ budget.setups > 0
    /\ \E createOk \in BOOLEAN :
        LET r == setup_altman_table(dm, target, createOk) IN
        /\ target' = r.target
        /\ last' = Last("setup_altman_table", r, target, NoArgs, <<>>, {})
    /\ budget' = [budget EXCEPT !.setups = @ - 1]
    /\ UNCHANGED <<dm, assigned>>
    /\ unchangedWindow

\* db_manager.insert_into_altman_table(...), its body run on statement sql.
CallInsert ==
    /\ pc = "storage"
    /\ dm.made
    /\ budget.inserts > 0
    /\ \E a \in InsertInputs, sql \in Statements, driverOk \in BOOLEAN :
        LET r == InsertStatement(dm, target, sql, a, driverOk, Len(assigned) + 1) IN
        /\ target' = r.target
        /\ assigned' = IF r.ok THEN Append(assigned, LastId(r.target)) ELSE assigned
        /\ last' = Last("insert", r, target, a, sql, {})
    /\ budget' = [budget EXCEPT !.inserts = @ - 1]
    /\ UNCHANGED dm
    /\ unchangedWindow

\* close_database(db_manager)
CallCloseDatabase ==
    /\ pc = "storage"
    /\ dm.made
    /\ last.op # "close_database"
    /\ LET r == close_database(dm, target) IN
        /\ dm' = r.dm
        /\ last' = Last("close_database", r, target, NoArgs, <<>>, {})
    /\ UNCHANGED <<target, assigned, budget>>
    /\ unchangedWindow

NextStorage ==
    \/ CallInitializeDatabase
    \/ CallDataManager
    \/ CallSetupAltmanTable
    \/ CallInsert
    \/ CallCloseDatabase

SpecStorage == InitStorage /\ [][NextStorage]_vars

----------------------------------------------------------------------------
(* SpecNav: the question pages of a window that run_app has built.         *)

\* next_index = (current_index + 1) % count
NextIndex(i, n) == (i + 1) % n

\* prev_index = (current_index - 1) % count
ClampedPrevIndex(i, n) == IF i = 0 THEN 0 ELSE i - 1
PrevIndex(i, n) == (i - 1) % n

\* QStackedWidget.setCurrentIndex: an index that names no page is ignored.
setCurrentIndex(st, idx) ==
    IF idx \in 0..(st.count - 1) THEN [st EXCEPT !.index = idx] ELSE st

\* see_measure: setCurrentIndex(5)
MeasurePage == 5

unchangedRecords ==
    UNCHANGED <<pc, target, template, dm, sliders, summary, view, events,
                assigned, budget>>

PageAction(op, idx) ==
    /\ pc = "running"
    /\ stack' = setCurrentIndex(stack, idx)
    /\ navFrom' = stack.index
    /\ last' = Last(op, NoResult, target, NoArgs, <<>>, {})
    /\ unchangedRecords

\* actionNext.triggered
next_page == PageAction("next_page", NextIndex(stack.index, stack.count))

\* actionPrev.triggered
prev_page == PageAction("prev_page", PrevIndex(stack.index, stack.count))

\* actionHome.triggered
go_home == PageAction("go_home", 0)

\* actionMeasureView.triggered
see_measure == PageAction("see_measure", MeasurePage)

\* The window is up; the stack has one page or more and shows any of them.
InitNav ==
    /\ pc = "running"
    /\ target = WindowUp.target
    /\ template = AbsentFile
    /\ dm = WindowUp.dm
    /\ InitForm
    /\ \E n \in 1..MaxPages, i \in 0..(MaxPages - 1) :
          i < n /\ stack = [count |-> n, index |-> i]
    /\ navFrom = stack.index
    /\ view = <<>>
    /\ events = <<"open", "setup_altman_table", "setup_models">>
    /\ assigned = <<>>
    /\ budget = [inserts |-> 0, moves |-> 0, boots |-> 0, setups |-> 0]
    /\ last = Last("DataManager", WindowUp, AbsentFile, NoArgs, <<>>, {})

NextNav ==
    \/ next_page
    \/ prev_page
    \/ go_home
    \/ see_measure

SpecNav == InitNav /\ [][NextNav]_vars

----------------------------------------------------------------------------
(* Properties.                                                             *)

\* Column values of a row, id aside, as a read in column order gives them.
ReadValues(r) == Tail(ReadRow(r))

\* The eight arguments of a call, in the order of the signature.
ArgumentValues(a) ==
    << a.altman_date, a.altman_time, a.altman_question, a.altman_question_2,
       a.altman_question_3, a.altman_question_4, a.altman_question_5,
       a.altmans_summary >>

InsertSucceeded == last.op = "insert" /\ last.ok

\* C1: a successful insert_into_altman_table adds exactly one row, which
\* reads back with the eight values of the call in column order, and leaves
\* every row that was there before as it was.
C1_InsertRoundTrip ==
    InsertSucceeded =>
        /\ Len(target.rows) = Len(last.pre.rows) + 1
        /\ SubSeq(target.rows, 1, Len(last.pre.rows)) = last.pre.rows
        /\ ReadValues(target.rows[Len(target.rows)]) = ArgumentValues(last.args)

C1_Witness ==
    /\ InsertSucceeded
    /\ Len(last.pre.rows) >= 1
    /\ last.args.altman_date = "2024-01-01"
    /\ last.args.altmans_summary = 10

\* C2 as claimed: the id of a newly inserted row is one more than the
\* largest id present in the table just before the insert (1 for an empty
\* table).
C2_IdAfterPresentMax ==
    InsertSucceeded => LastId(target) = Max(Ids(last.pre.rows)) + 1

\* C2, amended: the id of a newly inserted row is one more than the largest
\* id the table has ever assigned, rows deleted since included (1 when it
\* has assigned none).
C2_IdAfterLargestEver ==
    InsertSucceeded =>
        LET n == Len(assigned) IN
        /\ n >= 1
        /\ LastId(target) = assigned[n]
        /\ assigned[n] = Max(SeqToSet(SubSeq(assigned, 1, n - 1))) + 1

C2_Witness ==
    /\ InsertSucceeded
    /\ Len(assigned) = 2
    /\ last.pre.rows = <<>>

\* C3: ids are unique, strictly increasing in insertion order and never
\* reused, whatever was deleted in between, and a stored row keeps the id
\* its insertion gave it.
C3_IdsNeverReused ==
    /\ \A i, j \in 1..Len(assigned) : i < j => assigned[i] < assigned[j]
    /\ Cardinality(Ids(target.rows)) = Len(target.rows)
    /\ \A k \in 1..Len(target.rows) :
          /\ target.rows[k].ord \in 1..Len(assigned)
          /\ target.rows[k].id = assigned[target.rows[k].ord]

C3_Witness ==
    /\ InsertSucceeded
    /\ Len(assigned) = 2
    /\ Len(target.rows) = 1

Positive(x) == IF x > 0 THEN x ELSE 0

Mismatched == last.op = "insert" /\ Count(last.sql, "?") # Len(ArgumentValues(last.args))

C7_ClosedAtTeardown ==
    /\ dm.opens <= 1
    /\ (pc = "closed" /\ dm.opens = 1) => (~dm.dbOpen /\ dm.closes = 1)

Position(e) == IF e \in SeqToSet(events) THEN IndexOf(events, e) ELSE 0

\* C8 as claimed: initialize_database runs once, before DataManager opens
\* the connection, and the schema is ensured after the open and before any
\* insert or model binding.
C8_BootstrapThenOpenThenSchema ==
    pc # "start" =>
        /\ Count(events, "initialize_database") = 1
        /\ Position("initialize_database") < Position("open")
        /\ Position("open") < Position("setup_altman_table")
        /\ Position("setup_models") # 0 =>
               Position("setup_altman_table") < Position("setup_models")
        /\ Position("insert") # 0 =>
               Position("setup_altman_table") < Position("insert")

\* C9: initialize_database leaves an existing target file as it is,
\* however often it is called and whether or not a template exists.
C9_BootstrapKeepsExistingTarget ==
    (last.op = "initialize_database" /\ last.pre.exists) => target = last.pre

C9_Witness ==
    /\ last.op = "initialize_database"
    /\ last.pre.exists
    /\ template.exists
    /\ template # target
    /\ budget.boots = 0

StorageOps == {"initialize_database", "DataManager", "insert"}

Answers(a) ==
    << a.altman_question, a.altman_question_2, a.altman_question_3,
       a.altman_question_4, a.altman_question_5 >>

OutOfRangeInsert ==
    /\ last.op = "insert"
    /\ last.sql = InsertSql
    /\ \E i \in 1..NumSliders : Answers(last.args)[i] \notin SliderMin..SliderMax

\* C11: insert_into_altman_table does not enforce the range of the answers.
\* A call with an answer outside [0,4] raises nothing and is not rejected:
\* the statement is executed, it takes effect exactly when the same call
\* with any other arguments would, and the row stored holds the values as
\* given.
C11_RangeNotEnforced ==
    OutOfRangeInsert =>
        /\ last.propagated = "none"
        /\ last.executed
        /\ "ValueError altman_refined_table" \notin last.logged
        /\ \A b \in InsertInputs, driverOk \in BOOLEAN :
              insert_into_altman_table(dm, last.pre, last.args, driverOk, 1).ok
                  = insert_into_altman_table(dm, last.pre, b, driverOk, 1).ok
        /\ last.ok =>
              /\ Len(target.rows) = Len(last.pre.rows) + 1
              /\ ReadValues(target.rows[Len(target.rows)]) = ArgumentValues(last.args)

C11_Witness ==
    /\ OutOfRangeInsert
    /\ last.ok
    /\ last.args.altman_question = 9
    /\ target.rows[Len(target.rows)].altman_question = 9

SetupOnOpenConnection == last.op = "setup_altman_table" /\ dm.dbOpen

\* C12: setup_altman_table may be called any number of times on an open
\* connection.  It raises nothing and fails only when the driver does,
\* whether or not the table is there; after a call that took effect the
\* file holds the table with its nine declared columns and the rows and
\* ids it had; a call on a file that has the table leaves the file as it is.
C12_SchemaIdempotent ==
    SetupOnOpenConnection =>
        /\ last.propagated = "none"
        /\ \A createOk \in BOOLEAN :
              setup_altman_table(dm, last.pre, createOk).ok = createOk
        /\ last.ok =>
              /\ last.logged = {}
              /\ target.hasTable
              /\ target.schema = (IF last.pre.hasTable THEN last.pre.schema ELSE Columns)
              /\ target.schema = Columns /\ Len(target.schema) = 9
              /\ target.rows = last.pre.rows
              /\ target.seq = last.pre.seq
        /\ last.pre.hasTable => target = last.pre

C12_Witness ==
    /\ SetupOnOpenConnection
    /\ last.ok
    /\ last.pre.hasTable
    /\ Len(target.rows) >= 1
    /\ budget.setups = 0

\* C13: page navigation wraps and stays in range.  On a stack of one page
\* or more, next_page goes from the last page to the first and otherwise one
\* page on, prev_page goes from the first page to the last and otherwise one
\* page back, prev_page undoes next_page, go_home shows the first page, and
\* the index is always that of a page.
C13_NavigationWraps ==
    /\ stack.count >= 1
    /\ stack.index \in 0..(stack.count - 1)
    /\ last.op = "next_page" =>
          stack.index = (IF navFrom = stack.count - 1 THEN 0 ELSE navFrom + 1)
    /\ last.op = "prev_page" =>
          stack.index = (IF navFrom = 0 THEN stack.count - 1 ELSE navFrom - 1)
    /\ last.op = "go_home" => stack.index = 0
    /\ setCurrentIndex(setCurrentIndex(stack, NextIndex(stack.index, stack.count)),
                       PrevIndex(NextIndex(stack.index, stack.count), stack.count))
          = stack

C13_Witness ==
    /\ last.op = "prev_page"
    /\ navFrom = 0
    /\ stack.count >= 3
    /\ stack.index = stack.count - 1

====
